---- MODULE Spec2Model ----
(***************************************************************************)
(* The python worker of the video subtitle generator: main() decodes the   *)
(* job configuration, process_media_file() sequences extract_audio() and   *)
(* transcribe_audio(), report_progress() writes every progress event to    *)
(* standard output and to the snapshot file <job_id>_progress.json, and    *)
(* report_transcription_progress() is the daemon thread that estimates     *)
(* progress while model.transcribe() blocks the main thread.               *)
(*                                                                         *)
(* Two threads are modelled, "main" and "est" (the estimator).  Every      *)
(* statement that touches shared state (standard output, the snapshot      *)
(* file, the stop event) is a step of its own, so that the threads         *)
(* interleave the way the interpreter lets them.                           *)
(***************************************************************************)
EXTENDS Integers, Sequences, FiniteSets, TLC

VARIABLES
    blob,           \* the --config argument: whether it decodes, and to what
    configAvailable,\* CONFIG_MODULE_AVAILABLE (process_media.py:21-27)
    config,         \* the dictionary process_media_file works on
    job_id,         \* the module-level job_id (process_media.py:30)
    pc,             \* pc[t]: position of thread t
    ret,            \* ret[t]: where thread t continues after report_progress
    rpEv,           \* rpEv[t]: the dictionary `progress` of t's report_progress
    out,            \* the lines written to standard output, in order
    snap,           \* the snapshot file <job_id>_progress.json
    clock,          \* what datetime.now() returns next
    stop_progress,  \* the threading.Event of transcribe_audio
    progress,       \* the local `progress` of the estimator thread
    callOutcome,    \* how model.transcribe ended, pending through `finally`
    cleanupDone,    \* the finally block (set + join) has completed
    joinTimedOut,   \* join(timeout=1) returned with the thread still alive
    wavExists,      \* the extracted .wav file exists on disk
    extractRet,     \* what extract_audio returned
    transcribeRet,  \* what transcribe_audio returned
    success,        \* what process_media_file returned
    extractCalls,   \* invocations of extract_audio
    transcribeCalls,\* invocations of transcribe_audio
    childSpawns,    \* child processes spawned (subprocess.run of ffmpeg)
    recogCalls,     \* invocations of model.transcribe
    lastError,      \* the kind of the last failure the worker logged
    exitCode,       \* the exit code of the process, NoExit while it runs
    faults,         \* the writes the environment lets fail: "stdout", "snapshot"
    stdoutOpen,     \* standard output still accepts lines
    rpRaised,       \* a report_progress call has raised into its caller
    snapLog,        \* every write of a snapshot file: its path and its event
    ffmpeg,         \* how the run of the decoding tool ended
    savedAs,        \* the structure save_subtitle wrote the subtitle in
    cuda,           \* what torch.cuda.is_available() answered, if asked
    device,         \* the local `device` of transcribe_audio
    modelDevice,    \* the device whisper.load_model put the model on
    recogDevice,    \* the device model.transcribe ran on
    language,       \* the local `language` of transcribe_audio, once resolved
    metadata,       \* the parts of the result metadata obtained so far
    raw,            \* a dictionary handed to the functions of config.py
    defaulted,      \* what apply_defaults returned
    applied,        \* how many times apply_defaults has been applied
    verdict,        \* what validate_config returned
    selector,       \* a language selector
    langCode        \* what get_language_code returned

vars == <<blob, configAvailable, config, job_id, pc, ret, rpEv, out, snap,
          clock, stop_progress, progress, callOutcome, cleanupDone,
          joinTimedOut, wavExists, extractRet, transcribeRet, success,
          extractCalls, transcribeCalls, childSpawns, recogCalls, lastError,
          exitCode, faults, stdoutOpen, rpRaised, snapLog, ffmpeg, savedAs,
          cuda, device, modelDevice, recogDevice, language, metadata,
          raw, defaulted, applied, verdict, selector, langCode>>

Threads == {"main", "est"}

\* ------------------------------------------------------------------ values
Absent == "<absent>"      \* the key is not in the dictionary
None == "<None>"          \* Python None / JSON null
NoExit == -1              \* the process has not exited
NoEvent == [kind |-> "none"]

\* config.py:10-18
DEFAULT_CONFIG ==
    [ffmpeg_path |-> "ffmpeg", whisper_model |-> "base", language |-> "English",
     device |-> "cpu", fp16 |-> "False", task |-> "transcribe",
     output_format |-> "srt"]

\* config.py:21-24
VALID_MODELS == {"tiny", "base", "small", "medium", "large"}
VALID_FORMATS == {"srt", "vtt", "txt", "json"}
VALID_TASKS == {"transcribe", "translate"}
VALID_DEVICES == {"cpu", "cuda"}

OptionalKeys == DOMAIN DEFAULT_CONFIG
Keys == {"job_id", "input_file", "output_dir"} \cup OptionalKeys

\* A file system where every path exists.
FileExists_Always(path) == TRUE

\* os.path.exists on the input path: one media file exists on disk.
FileExists(path) == path = "in.mp4"

\* dict.get(key, default)
Get(cfg, key, default) == IF cfg[key] = Absent THEN default ELSE cfg[key]

\* An apply_defaults where the default table wins over the input.
apply_defaults_Overwrites(cfg) ==
    [k \in Keys |-> IF k \in OptionalKeys THEN DEFAULT_CONFIG[k] ELSE cfg[k]]

\* config.py:80-84
apply_defaults(cfg) ==
    [k \in Keys |->
        IF k \in OptionalKeys /\ cfg[k] = Absent THEN DEFAULT_CONFIG[k] ELSE cfg[k]]

\* A validate_config that looks at the format before the model.
validate_config_FormatFirst(cfg) ==
    IF cfg["input_file"] = Absent
      THEN <<FALSE, "Missing required field: input_file">>
    ELSE IF cfg["output_dir"] = Absent
      THEN <<FALSE, "Missing required field: output_dir">>
    ELSE IF ~FileExists(cfg["input_file"])
      THEN <<FALSE, "Input file not found">>
    ELSE IF Get(cfg, "output_format", "srt") \notin VALID_FORMATS
      THEN <<FALSE, "Invalid format">>
    ELSE IF Get(cfg, "whisper_model", "base") \notin VALID_MODELS
      THEN <<FALSE, "Invalid model">>
    ELSE IF Get(cfg, "task", "transcribe") \notin VALID_TASKS
      THEN <<FALSE, "Invalid task">>
    ELSE IF Get(cfg, "device", "cpu") \notin VALID_DEVICES
      THEN <<FALSE, "Invalid device">>
    ELSE <<TRUE, None>>

\* config.py:40-77; returns <<is_valid, error_message>>
validate_config(cfg) ==
    IF cfg["input_file"] = Absent
      THEN <<FALSE, "Missing required field: input_file">>
    ELSE IF cfg["output_dir"] = Absent
      THEN <<FALSE, "Missing required field: output_dir">>
    ELSE IF ~FileExists(cfg["input_file"])
      THEN <<FALSE, "Input file not found">>
    ELSE IF Get(cfg, "whisper_model", "base") \notin VALID_MODELS
      THEN <<FALSE, "Invalid model">>
    ELSE IF Get(cfg, "output_format", "srt") \notin VALID_FORMATS
      THEN <<FALSE, "Invalid format">>
    ELSE IF Get(cfg, "task", "transcribe") \notin VALID_TASKS
      THEN <<FALSE, "Invalid task">>
    ELSE IF Get(cfg, "device", "cpu") \notin VALID_DEVICES
      THEN <<FALSE, "Invalid device">>
    ELSE <<TRUE, None>>

\* The dictionary with no key.
NoConfig == [k \in Keys |-> Absent]

\* A --config value that base64, utf-8 or json cannot decode.
BadBlob == [decodes |-> FALSE, cfg |-> NoConfig]

\* The configurations the worker is started with.
Configs ==
    { [k \in Keys |->
         CASE k = "job_id" -> j
           [] k = "input_file" -> i
           [] k = "output_dir" -> o
           [] k = "whisper_model" -> m
           [] k = "output_format" -> f
           [] k = "device" -> d
           [] OTHER -> Absent] :
      j \in {Absent, "job-1", None},
      i \in {Absent, "in.mp4", "gone.mp4"},
      o \in {Absent, "out"},
      m \in {Absent, "huge"},
      f \in {Absent, "xyz"},
      d \in {Absent, "cuda"} }

\* The dictionaries validate_config and apply_defaults are tried on: every
\* key missing, given a valid value that is not the default, or given a value
\* outside its enumeration.
WideConfigs ==
    { [k \in Keys |->
         CASE k = "input_file" -> i
           [] k = "output_dir" -> o
           [] k = "ffmpeg_path" -> p
           [] k = "whisper_model" -> m
           [] k = "language" -> l
           [] k = "device" -> d
           [] k = "fp16" -> h
           [] k = "task" -> t
           [] k = "output_format" -> f
           [] OTHER -> Absent] :
      i \in {Absent, "in.mp4", "gone.mp4"},
      o \in {Absent, "out"},
      p \in {Absent, "C:/tools/ffmpeg.exe"},
      m \in {Absent, "tiny", "huge"},
      l \in {Absent, "auto"},
      d \in {Absent, "cuda", "tpu"},
      h \in {Absent, "True"},
      t \in {Absent, "translate", "dub"},
      f \in {Absent, "vtt", "xyz"} }

\* -------------------------------------------------------------- languages
\* The spellings of the language selectors that are tried, each with what
\* str.lower() makes of it.
Spellings ==
    {<<"English", "english">>, <<"ENGLISH", "english">>, <<"english", "english">>,
     <<"Vietnamese", "vietnamese">>, <<"vietnamese", "vietnamese">>,
     <<"Chinese", "chinese">>, <<"CHINESE", "chinese">>,
     <<"Japanese", "japanese">>, <<"japanese", "japanese">>,
     <<"Korean", "korean">>, <<"kOREAN", "korean">>,
     <<"French", "french">>, <<"FRENCH", "french">>,
     <<"German", "german">>, <<"german", "german">>,
     <<"Spanish", "spanish">>, <<"SpAnIsH", "spanish">>,
     <<"auto", "auto">>, <<"Auto", "auto">>, <<"AUTO", "auto">>,
     <<"Italian", "italian">>, <<"italian", "italian">>,
     <<"en", "en">>, <<"", "">>}

Selectors == {p[1] : p \in Spellings}

\* str.lower()
lower(str) == (CHOOSE p \in Spellings : p[1] = str)[2]

\* config.py:27-37
LANGUAGE_CODES ==
    [english |-> "en", vietnamese |-> "vi", chinese |-> "zh", japanese |-> "ja",
     korean |-> "ko", french |-> "fr", german |-> "de", spanish |-> "es",
     auto |-> None]

\* config.py:87-90: LANGUAGE_CODES.get(language.lower(), None)
get_language_code(lang) ==
    IF lower(lang) \in DOMAIN LANGUAGE_CODES THEN LANGUAGE_CODES[lower(lang)] ELSE None

\* process_media.py:281-302: the if/elif chain of transcribe_audio; a name
\* that no branch matches stays as it was given
ResolveLanguage(lang) ==
    CASE lower(lang) = "auto" -> None
      [] lower(lang) = "english" -> "en"
      [] lower(lang) = "vietnamese" -> "vi"
      [] lower(lang) = "chinese" -> "zh"
      [] lower(lang) = "spanish" -> "es"
      [] lower(lang) = "french" -> "fr"
      [] lower(lang) = "german" -> "de"
      [] lower(lang) = "japanese" -> "ja"
      [] lower(lang) = "korean" -> "ko"
      [] OTHER -> lang

\* A stage that hands the requested device to the model whatever the
\* hardware.
ResolveDevice_NoFallback(requested, available) == requested

\* process_media.py:258-265: cuda that is not available becomes cpu
ResolveDevice(requested, available) ==
    IF requested = "cuda" /\ ~available THEN "cpu" ELSE requested

\* ------------------------------------------------------------------ events
\* process_media.py:70-76, the dictionary `progress`; `by` records the thread
\* that built it.
ProgressEvent(t, phase, percent, message, now) ==
    [kind |-> "progress", phase |-> phase, percent |-> percent,
     message |-> message, timestamp |-> now, by |-> t]

\* process_media.py:97-105, the dictionary `result`
ResultEvent(ok, wav_file, subtitle_file, error) ==
    [kind |-> "result", success |-> ok, wav_file |-> wav_file,
     subtitle_file |-> subtitle_file, error |-> error]

\* What print(..., flush=True) can do (process_media.py:79, 106): the line is
\* written, or the write raises. A standard output that has failed once (the
\* reader closed the pipe) fails from then on.
StdoutWrites == IF "stdout" \in faults /\ stdoutOpen THEN BOOLEAN ELSE {stdoutOpen}

\* What open(progress_file, 'w') can do (process_media.py:85): the file is
\* opened and truncated, or, where the directory of the script cannot be
\* written, the open raises.
SnapshotOpens == IF "snapshot" \in faults THEN {FALSE} ELSE {TRUE}

\* process_media.py:91-106: one line on standard output
report_result(ok, wav_file, subtitle_file, error) ==
    \E works \in StdoutWrites :
        /\ stdoutOpen' = works
        /\ out' = IF works THEN Append(out, ResultEvent(ok, wav_file, subtitle_file, error))
                            ELSE out

\* process_media.py:574-578: <output_dir>/<stem>.wav and
\* <output_dir>/<stem>.<output_format>
wav_file == "out/in.wav"
subtitle_file ==
    CASE Get(config, "output_format", "srt") = "srt" -> "out/in.srt"
      [] Get(config, "output_format", "srt") = "vtt" -> "out/in.vtt"
      [] Get(config, "output_format", "srt") = "txt" -> "out/in.txt"
      [] Get(config, "output_format", "srt") = "json" -> "out/in.json"
      [] OTHER -> "out/in.xyz"

\* The estimator's numbers, process_media.py:325-329
EstimatorStart == 70
EstimatorCap == 89
EstimatorStep == 3

Min(a, b) == IF a < b THEN a ELSE b

\* The tool has not been run.
NotRun == [how |-> "none", wav |-> FALSE]

\* ------------------------------------------------------------------ state
\* Nothing has run yet.
NotStarted ==
    /\ config = NoConfig
    /\ job_id = None
    /\ pc = [main |-> "main_decode", est |-> "idle"]
    /\ ret = [main |-> "none", est |-> "loop"]
    /\ rpEv = [main |-> NoEvent, est |-> NoEvent]
    /\ out = <<>>
    /\ snap = [st |-> "absent", ev |-> NoEvent]
    /\ clock = 0
    /\ stop_progress = FALSE
    /\ progress = EstimatorStart
    /\ callOutcome = "none"
    /\ cleanupDone = FALSE
    /\ joinTimedOut = FALSE
    /\ wavExists = FALSE
    /\ extractRet = "none"
    /\ transcribeRet = "none"
    /\ success = "none"
    /\ extractCalls = 0
    /\ transcribeCalls = 0
    /\ childSpawns = 0
    /\ recogCalls = 0
    /\ lastError = "none"
    /\ exitCode = NoExit
    /\ stdoutOpen = TRUE
    /\ rpRaised = FALSE
    /\ snapLog = <<>>
    /\ ffmpeg = NotRun
    /\ savedAs = "none"
    /\ cuda = "unasked"
    /\ device = "none"
    /\ modelDevice = "none"
    /\ recogDevice = "none"
    /\ language = "unresolved"
    /\ metadata = {}
    /\ defaulted = NoConfig
    /\ applied = 0
    /\ verdict = <<FALSE, "not called">>
    /\ langCode = "not called"

\* The worker is started on a job.
StartState ==
    /\ blob \in {BadBlob} \cup {[decodes |-> TRUE, cfg |-> c] : c \in Configs}
    /\ configAvailable \in BOOLEAN
    /\ raw = NoConfig
    /\ selector = "English"
    /\ NotStarted

\* The state after the interpreter has loaded the script: every write works.
Init == StartState /\ faults = {}

inputVars == <<blob, configAvailable, faults>>
estVars == <<stop_progress, progress, callOutcome, cleanupDone, joinTimedOut>>
countVars == <<extractCalls, transcribeCalls, childSpawns, recogCalls>>
retVars == <<extractRet, transcribeRet, success>>
reportVars == <<ret, rpEv, clock, rpRaised>>
ioVars == <<out, stdoutOpen, snap, snapLog>>
fileVars == <<wavExists, ffmpeg, savedAs>>
stageVars == <<cuda, device, modelDevice, recogDevice, language, metadata>>
libVars == <<raw, defaulted, applied, verdict, selector, langCode>>

Goto(t, label) == pc' = [pc EXCEPT ![t] = label]

\* A call of report_progress by thread t (process_media.py:67-76): the
\* dictionary is built with the time of the call, and t continues at `after`
\* when the call returns.
CallReportProgress(t, phase, percent, message, after) ==
    /\ rpEv' = [rpEv EXCEPT ![t] = ProgressEvent(t, phase, percent, message, clock)]
    /\ clock' = clock + 1
    /\ ret' = [ret EXCEPT ![t] = after]
    /\ Goto(t, "rp_print")
    /\ UNCHANGED rpRaised

\* process_media_file returns False after report_result(False, ...).
FailJob(kind, wav, error) ==
    /\ lastError' = kind
    /\ report_result(FALSE, wav, None, error)
    /\ success' = "false"
    /\ Goto("main", "main_after")

\* extract_audio returns False: every handler logs and returns False.
EA_ReturnFalse(kind) ==
    /\ lastError' = kind
    /\ extractRet' = "false"
    /\ Goto("main", "pmf_extracted")

\* transcribe_audio returns False: every handler logs and returns False.
TA_ReturnFalse(kind) ==
    /\ lastError' = kind
    /\ transcribeRet' = "false"
    /\ Goto("main", "pmf_transcribed")

\* ------------------------------------------------------- report_progress
\* A snapshot file named after the input instead of the job.
progress_file_FromInput == config["input_file"]

\* The snapshot file of the job, process_media.py:84: the directory of the
\* script and "<job_id>_progress.json".
progress_file == job_id

\* The call sites of report_progress inside the try block of extract_audio
\* (process_media.py:128, 153, 190) and of transcribe_audio (247, 278, 313,
\* 372, 395), by the label the call returns to.
CallsFromExtract == {"ea_input", "ea_ffmpeg", "ea_return"}
CallsFromTranscribe == {"ta_load", "ta_options", "ta_thread", "ta_save", "ta_return"}

\* process_media.py:79 raises: the print stands outside the try block of
\* report_progress, so the exception leaves the function for the handler
\* around the call: `except Exception` of extract_audio (203-208) or of
\* transcribe_audio (410-415), which return False, or of process_media_file
\* (664-670), whose report_result fails on the same standard output and
\* swallows it (114-115). In the estimator thread nothing catches it and
\* the thread ends.
RP_Raise(t) ==
    CASE t = "est" ->
           /\ Goto("est", "done")
           /\ UNCHANGED <<lastError, retVars>>
      [] t = "main" /\ ret[t] \in CallsFromExtract ->
           /\ EA_ReturnFalse("Unclassified")
           /\ UNCHANGED <<transcribeRet, success>>
      [] t = "main" /\ ret[t] \in CallsFromTranscribe ->
           /\ TA_ReturnFalse("Unclassified")
           /\ UNCHANGED <<extractRet, success>>
      [] OTHER ->
           /\ lastError' = "Unclassified"
           /\ success' = "false"
           /\ Goto("main", "main_after")
           /\ UNCHANGED <<extractRet, transcribeRet>>

\* process_media.py:79: print(json.dumps(progress), flush=True)
RP_Print(t) ==
    /\ pc[t] = "rp_print"
    /\ \E works \in StdoutWrites :
         /\ stdoutOpen' = works
         /\ IF works
              THEN /\ out' = Append(out, rpEv[t])
                   /\ Goto(t, IF job_id # None THEN "rp_open" ELSE ret[t])
                   /\ UNCHANGED <<rpRaised, lastError, retVars>>
              ELSE /\ out' = out
                   /\ rpRaised' = TRUE
                   /\ RP_Raise(t)
    /\ UNCHANGED <<inputVars, libVars, stageVars, config, job_id, ret, rpEv, clock, snap, snapLog,
                   estVars, fileVars, countVars, exitCode>>

\* process_media.py:84-85: open(progress_file, 'w') truncates the file; when
\* it raises, the handler 87-88 logs a warning and the function returns
RP_Open(t) ==
    /\ pc[t] = "rp_open"
    /\ \E opened \in SnapshotOpens :
         IF opened
           THEN /\ snap' = [st |-> "empty", ev |-> NoEvent]
                /\ Goto(t, "rp_close")
           ELSE /\ snap' = snap
                /\ Goto(t, ret[t])
    /\ UNCHANGED <<inputVars, libVars, stageVars, config, job_id, reportVars, out, stdoutOpen, snapLog,
                   estVars, fileVars, retVars, countVars, lastError, exitCode>>

\* process_media.py:85-86: json.dump into the buffer, written when the
\* `with` block closes the file
RP_Close(t) ==
    /\ pc[t] = "rp_close"
    /\ snap' = [st |-> "event", ev |-> rpEv[t]]
    /\ snapLog' = Append(snapLog, [file |-> progress_file, ev |-> rpEv[t]])
    /\ Goto(t, ret[t])
    /\ UNCHANGED <<inputVars, libVars, stageVars, config, job_id, reportVars, out, stdoutOpen, estVars,
                   fileVars, retVars, countVars, lastError, exitCode>>

\* ------------------------------------------------------------------ main
\* process_media.py:703-722
Main_Decode ==
    /\ pc["main"] = "main_decode"
    /\ IF ~blob.decodes
         THEN /\ lastError' = "DecodeError"
              /\ report_result(FALSE, None, None, "Failed to decode configuration")
              /\ Goto("main", "main_decode_exit")
              /\ UNCHANGED <<config, job_id>>
         ELSE /\ config' = blob.cfg
              /\ job_id' = Get(blob.cfg, "job_id", "uuid4")
              /\ Goto("main", "pmf_start")
              /\ UNCHANGED <<lastError, out, stdoutOpen>>
    /\ UNCHANGED <<inputVars, libVars, stageVars, reportVars, snap, snapLog, estVars, fileVars, retVars,
                   countVars, exitCode>>

\* The process ends: the daemon thread ends with it.
Exit(code) ==
    /\ exitCode' = code
    /\ pc' = [main |-> "exited",
              est |-> IF pc["est"] \in {"idle", "done"} THEN pc["est"] ELSE "killed"]

\* A main that goes on to the orchestrator after the decode failure.
Main_DecodeExit_FallsThrough ==
    /\ pc["main"] = "main_decode_exit"
    /\ Goto("main", "pmf_start")
    /\ UNCHANGED <<inputVars, libVars, stageVars, config, job_id, reportVars, ioVars, estVars,
                   fileVars, retVars, countVars, lastError, exitCode>>

\* process_media.py:722: sys.exit(1) after the decode failure
Main_DecodeExit ==
    /\ pc["main"] = "main_decode_exit"
    /\ Exit(1)
    /\ UNCHANGED <<inputVars, libVars, stageVars, config, job_id, reportVars, ioVars, estVars,
                   fileVars, retVars, countVars, lastError>>

\* A main that exits with 0 whatever process_media_file returned.
Main_Exit_AlwaysZero ==
    /\ pc["main"] = "main_after"
    /\ Exit(0)
    /\ UNCHANGED <<inputVars, libVars, stageVars, config, job_id, reportVars, ioVars, estVars,
                   fileVars, retVars, countVars, lastError>>

\* process_media.py:725-737
Main_Exit ==
    /\ pc["main"] = "main_after"
    /\ Exit(IF success = "true" THEN 0 ELSE 1)
    /\ UNCHANGED <<inputVars, libVars, stageVars, config, job_id, reportVars, ioVars, estVars,
                   fileVars, retVars, countVars, lastError>>

\* process_media.py:739-745: KeyboardInterrupt reaches main() from wherever
\* the main thread is; a `with open` block it unwinds closes the file with
\* what json.dump had buffered so far.
Main_Interrupt ==
    /\ pc["main"] # "exited"
    /\ Exit(2)
    /\ IF pc["main"] = "rp_close"
         THEN \E st \in {"empty", "partial"} : snap' = [st |-> st, ev |-> NoEvent]
         ELSE snap' = snap
    /\ UNCHANGED <<inputVars, libVars, stageVars, config, job_id, reportVars, out, stdoutOpen, snapLog, estVars,
                   fileVars, retVars, countVars, lastError>>

\* ---------------------------------------------------- process_media_file
\* process_media.py:529-541
PMF_Start ==
    /\ pc["main"] = "pmf_start"
    /\ IF configAvailable
         THEN LET checked == validate_config(apply_defaults(config)) IN
              /\ config' = apply_defaults(config)
              /\ IF checked[1]
                   THEN /\ Goto("main", "pmf_required")
                        /\ UNCHANGED <<lastError, out, stdoutOpen, success>>
                   ELSE FailJob("ValidationError", None, checked[2])
         ELSE /\ Goto("main", "pmf_required")
              /\ UNCHANGED <<config, lastError, out, stdoutOpen, success>>
    /\ UNCHANGED <<inputVars, libVars, stageVars, job_id, reportVars, snap, snapLog, estVars, fileVars,
                   extractRet, transcribeRet, countVars, exitCode>>

\* process_media.py:543-552, and the KeyError handler 642-648
PMF_RequiredKeys ==
    /\ pc["main"] = "pmf_required"
    /\ IF config["input_file"] = Absent \/ config["output_dir"] = Absent
         THEN FailJob("ValidationError", None, "Missing required config")
         ELSE /\ Goto("main", "pmf_makedirs")
              /\ UNCHANGED <<lastError, out, stdoutOpen, success>>
    /\ UNCHANGED <<inputVars, libVars, stageVars, config, job_id, reportVars, snap, snapLog, estVars,
                   fileVars, extractRet, transcribeRet, countVars, exitCode>>

\* What os.makedirs(output_dir, exist_ok=True) does.
MakeDirsOutcomes == {"ok", "PermissionError", "OSError"}

\* process_media.py:567-585, and the handlers 656-670
PMF_MakeDirs ==
    /\ pc["main"] = "pmf_makedirs"
    /\ \E o \in MakeDirsOutcomes :
         CASE o = "ok" ->
                /\ CallReportProgress("main", "queued", 0, "Processing", "ea_start")
                /\ UNCHANGED <<lastError, out, stdoutOpen, success>>
           [] o = "PermissionError" ->
                /\ FailJob("PermissionDenied", None, "Permission denied")
                /\ UNCHANGED reportVars
           [] o = "OSError" ->
                /\ FailJob("Unclassified", None, "Processing failed")
                /\ UNCHANGED reportVars
    /\ UNCHANGED <<inputVars, libVars, stageVars, config, job_id, snap, snapLog, estVars, fileVars,
                   extractRet, transcribeRet, countVars, exitCode>>

\* A stage result the orchestrator never takes for a failure.
StageFailed_Never(returned) == FALSE

\* process_media.py:589 and 597: `if not <stage>(...)`
StageFailed(returned) == returned # "true"

\* An orchestrator that runs the extraction again after it returned False.
PMF_AfterExtract_Retry ==
    /\ pc["main"] = "pmf_extracted"
    /\ IF ~StageFailed(extractRet) \/ extractCalls < 2
         THEN /\ Goto("main", IF StageFailed(extractRet) THEN "ea_start" ELSE "ta_start")
              /\ UNCHANGED <<lastError, out, stdoutOpen, success>>
         ELSE /\ report_result(FALSE, None, None, "Audio extraction failed")
              /\ success' = "false"
              /\ Goto("main", "main_after")
              /\ UNCHANGED lastError
    /\ UNCHANGED <<inputVars, libVars, stageVars, config, job_id, reportVars, snap, snapLog, estVars,
                   fileVars, extractRet, transcribeRet, countVars, exitCode>>

\* process_media.py:587-593: `if not extract_audio(...)`
PMF_AfterExtract ==
    /\ pc["main"] = "pmf_extracted"
    /\ IF ~StageFailed(extractRet)
         THEN /\ Goto("main", "ta_start")
              /\ UNCHANGED <<lastError, out, stdoutOpen, success>>
         ELSE /\ report_result(FALSE, None, None, "Audio extraction failed")
              /\ success' = "false"
              /\ Goto("main", "main_after")
              /\ UNCHANGED lastError
    /\ UNCHANGED <<inputVars, libVars, stageVars, config, job_id, reportVars, snap, snapLog, estVars,
                   fileVars, extractRet, transcribeRet, countVars, exitCode>>

\* process_media.py:595-611: `if not transcribe_audio(...)`, else the
\* completed event
PMF_AfterTranscribe ==
    /\ pc["main"] = "pmf_transcribed"
    /\ IF ~StageFailed(transcribeRet)
         THEN /\ metadata' = {"duration"}
              /\ CallReportProgress("main", "completed", 100,
                                    "Processing completed successfully", "pmf_metadata")
              /\ UNCHANGED <<out, stdoutOpen, success>>
         ELSE /\ report_result(FALSE, wav_file, None, "Transcription failed")
              /\ success' = "false"
              /\ Goto("main", "main_after")
              /\ UNCHANGED <<reportVars, metadata>>
    /\ UNCHANGED <<inputVars, libVars, cuda, device, modelDevice, recogDevice,
                   language, config, job_id, snap, snapLog, estVars, fileVars,
                   extractRet, transcribeRet, countVars, lastError, exitCode>>

\* What the three os.path.getsize calls of the metadata do.
GetSizeOutcomes == {"ok", "FileNotFoundError", "PermissionError"}

\* process_media.py:613-640, and the handlers 649-663
PMF_Metadata ==
    /\ pc["main"] = "pmf_metadata"
    /\ \E o \in GetSizeOutcomes :
         CASE o = "ok" ->
                /\ metadata' = metadata \cup {"sizes"}
                /\ report_result(TRUE, wav_file, subtitle_file, None)
                /\ success' = "true"
                /\ Goto("main", "main_after")
                /\ UNCHANGED lastError
           [] o = "FileNotFoundError" ->
                /\ FailJob("FileNotFound", None, "File not found")
                /\ UNCHANGED metadata
           [] o = "PermissionError" ->
                /\ FailJob("PermissionDenied", None, "Permission denied")
                /\ UNCHANGED metadata
    /\ UNCHANGED <<inputVars, libVars, cuda, device, modelDevice, recogDevice,
                   language, config, job_id, reportVars, snap, snapLog, estVars,
                   fileVars, extractRet, transcribeRet, countVars, exitCode>>

\* ---------------------------------------------------------- extract_audio
\* process_media.py:118-128
EA_Start ==
    /\ pc["main"] = "ea_start"
    /\ extractCalls' = extractCalls + 1
    /\ CallReportProgress("main", "converting", 10,
                          "Starting audio extraction...", "ea_input")
    /\ UNCHANGED <<inputVars, libVars, stageVars, config, job_id, ioVars, estVars, fileVars,
                   retVars, transcribeCalls, childSpawns, recogCalls,
                   lastError, exitCode>>

\* An extraction that reports nothing between its start and its completion.
EA_CheckInput_Silent ==
    /\ pc["main"] = "ea_input"
    /\ IF FileExists(config["input_file"])
         THEN /\ Goto("main", "ea_ffmpeg")
              /\ UNCHANGED <<lastError, extractRet>>
         ELSE EA_ReturnFalse("FileNotFound")
    /\ UNCHANGED <<inputVars, libVars, stageVars, config, job_id, reportVars,
                   ioVars, estVars, fileVars, transcribeRet, success, countVars,
                   exitCode>>

\* process_media.py:130-153, and the FileNotFoundError handler 199-202
EA_CheckInput ==
    /\ pc["main"] = "ea_input"
    /\ IF FileExists(config["input_file"])
         THEN /\ CallReportProgress("main", "converting", 25,
                                    "Extracting audio with FFmpeg...", "ea_ffmpeg")
              /\ UNCHANGED <<lastError, extractRet>>
         ELSE /\ EA_ReturnFalse("FileNotFound")
              /\ UNCHANGED reportVars
    /\ UNCHANGED <<inputVars, libVars, stageVars, config, job_id, ioVars, estVars, fileVars,
                   transcribeRet, success, countVars, exitCode>>

\* What subprocess.run of the tool does: the tool cannot be started, runs
\* over the hour, or exits with a code and leaves the output file or not.
FFmpegOutcomes ==
    {[how |-> "spawn_failed", wav |-> FALSE], [how |-> "timeout", wav |-> FALSE],
     [how |-> "nonzero", wav |-> FALSE],
     [how |-> "zero", wav |-> FALSE], [how |-> "zero", wav |-> TRUE]}

\* An extraction that trusts the exit code and does not look for the file.
ExtractionSucceeded_NoVerify(o) == o.how = "zero"

\* process_media.py:167 and 177: the exit code is zero and the output file
\* exists
ExtractionSucceeded(o) == o.how = "zero" /\ o.wav

\* process_media.py:155-190, and the handlers 194-202
EA_RunFFmpeg ==
    /\ pc["main"] = "ea_ffmpeg"
    /\ \E o \in FFmpegOutcomes :
         /\ childSpawns' = IF o.how = "spawn_failed" THEN childSpawns ELSE childSpawns + 1
         /\ wavExists' = o.wav
         /\ ffmpeg' = o
         /\ CASE o.how = "spawn_failed" ->
                   EA_ReturnFalse("FileNotFound") /\ UNCHANGED reportVars
              [] o.how = "timeout" ->
                   EA_ReturnFalse("Timeout") /\ UNCHANGED reportVars
              [] o.how = "nonzero" ->
                   EA_ReturnFalse("ToolFailure") /\ UNCHANGED reportVars
              [] o.how = "zero" /\ ~ExtractionSucceeded(o) ->
                   EA_ReturnFalse("ArtifactMissing") /\ UNCHANGED reportVars
              [] o.how = "zero" /\ ExtractionSucceeded(o) ->
                   /\ CallReportProgress("main", "converting", 50,
                                         "Audio extraction completed", "ea_return")
                   /\ UNCHANGED <<lastError, extractRet>>
    /\ UNCHANGED <<inputVars, libVars, stageVars, config, job_id, ioVars, estVars, transcribeRet,
                   success, extractCalls, transcribeCalls, recogCalls, exitCode,
                   savedAs>>

\* process_media.py:191-192: return True
EA_ReturnTrue ==
    /\ pc["main"] = "ea_return"
    /\ extractRet' = "true"
    /\ Goto("main", "pmf_extracted")
    /\ UNCHANGED <<inputVars, libVars, stageVars, config, job_id, reportVars, ioVars, estVars,
                   fileVars, transcribeRet, success, countVars, lastError,
                   exitCode>>

\* ------------------------------------------------------- transcribe_audio
\* A guard whose FileNotFoundError leaves transcribe_audio and is caught by
\* the handler of process_media_file (649-655).
TA_MissingAudio_Raises ==
    /\ FailJob("FileNotFound", None, "File not found")
    /\ UNCHANGED <<reportVars, transcribeRet>>

\* process_media.py:233-237 and 400-403: the guard raises FileNotFoundError
\* inside the try block of transcribe_audio, whose own handler returns False
TA_MissingAudio ==
    /\ TA_ReturnFalse("FileNotFound")
    /\ UNCHANGED <<reportVars, out, stdoutOpen, success>>

\* process_media.py:211-247. The import of whisper and torch succeeds or
\* not; the .wav file the extraction left may have been removed since.
TA_Start ==
    /\ pc["main"] = "ta_start"
    /\ transcribeCalls' = transcribeCalls + 1
    /\ \E imported \in BOOLEAN, present \in {wavExists, FALSE} :
         /\ wavExists' = present
         /\ IF ~imported
              THEN /\ TA_ReturnFalse("ImportError")
                   /\ UNCHANGED <<reportVars, out, stdoutOpen, success>>
              ELSE IF ~present
                THEN TA_MissingAudio
                ELSE /\ CallReportProgress("main", "transcribing", 55,
                                           "Loading Whisper model...", "ta_load")
                     /\ UNCHANGED <<lastError, transcribeRet, out, stdoutOpen,
                                    success>>
    /\ UNCHANGED <<inputVars, libVars, stageVars, config, job_id, snap, snapLog, estVars, extractRet,
                   extractCalls, childSpawns, recogCalls, exitCode, ffmpeg,
                   savedAs>>

\* process_media.py:249-278: whisper.load_model returns or raises
TA_LoadModel ==
    /\ pc["main"] = "ta_load"
    /\ LET requested == Get(config, "device", "cpu") IN
       \E available \in (IF requested = "cuda" THEN BOOLEAN ELSE {FALSE}),
          loaded \in BOOLEAN :
         /\ cuda' = IF requested # "cuda" THEN cuda
                     ELSE IF available THEN "yes" ELSE "no"
         /\ device' = ResolveDevice(requested, available)
         /\ IF loaded
              THEN /\ modelDevice' = device'
                   /\ CallReportProgress("main", "transcribing", 65,
                                         "Model loaded", "ta_options")
                   /\ UNCHANGED <<lastError, transcribeRet>>
              ELSE /\ TA_ReturnFalse("Unclassified")
                   /\ UNCHANGED <<reportVars, modelDevice>>
    /\ UNCHANGED <<inputVars, libVars, recogDevice, language, metadata, config,
                   job_id, ioVars, estVars, fileVars, extractRet, success,
                   countVars, exitCode>>

\* process_media.py:280-313
TA_Options ==
    /\ pc["main"] = "ta_options"
    /\ language' = ResolveLanguage(Get(config, "language", "English"))
    /\ CallReportProgress("main", "transcribing", 70,
                          "Starting transcription...", "ta_thread")
    /\ UNCHANGED <<inputVars, libVars, cuda, device, modelDevice, recogDevice,
                   metadata, config, job_id, ioVars, estVars, fileVars,
                   retVars, countVars, lastError, exitCode>>

\* process_media.py:319-334: the Event is created clear and the daemon
\* thread is started
TA_StartThread ==
    /\ pc["main"] = "ta_thread"
    /\ stop_progress' = FALSE
    /\ pc' = [main |-> "ta_call", est |-> "started"]
    /\ UNCHANGED <<inputVars, libVars, stageVars, config, job_id, reportVars, ioVars, progress,
                   callOutcome, cleanupDone, joinTimedOut, fileVars, retVars,
                   countVars, lastError, exitCode>>

\* How the blocking call model.transcribe ends.
TranscribeOutcomes == {"ok", "MemoryError", "Exception"}

\* process_media.py:336-343: the blocking call returns or raises
TA_Transcribe ==
    /\ pc["main"] = "ta_call"
    /\ recogCalls' = recogCalls + 1
    /\ recogDevice' = modelDevice
    /\ \E o \in TranscribeOutcomes : callOutcome' = o
    /\ Goto("main", "ta_finally")
    /\ UNCHANGED <<inputVars, libVars, cuda, device, modelDevice, language,
                   metadata, config, job_id, reportVars, ioVars,
                   stop_progress, progress, cleanupDone, joinTimedOut,
                   fileVars, retVars, extractCalls, transcribeCalls,
                   childSpawns, lastError, exitCode>>

\* process_media.py:344-346: stop_progress.set()
TA_StopSet ==
    /\ pc["main"] = "ta_finally"
    /\ stop_progress' = TRUE
    /\ Goto("main", "ta_join")
    /\ UNCHANGED <<inputVars, libVars, stageVars, config, job_id, reportVars, ioVars, progress,
                   callOutcome, cleanupDone, joinTimedOut, fileVars, retVars,
                   countVars, lastError, exitCode>>

\* A join that never returns.
JoinReturns_Never(t, hasTimeout) == FALSE

\* Thread.join: returns when the thread has ended or, given a timeout, when
\* the timeout has passed, whatever the thread is doing then.
JoinReturns(t, hasTimeout) == pc[t] = "done" \/ hasTimeout

\* process_media.py:347-372: progress_thread.join(timeout=1) ends the
\* finally block; then the exception of the call propagates to the handlers
\* 404-415, or the 90 percent event is reported
TA_Join ==
    /\ pc["main"] = "ta_join"
    /\ JoinReturns("est", TRUE)
    /\ cleanupDone' = TRUE
    /\ joinTimedOut' = (pc["est"] # "done")
    /\ CASE callOutcome = "ok" ->
              /\ CallReportProgress("main", "transcribing", 90,
                     "Transcription completed, saving subtitle...", "ta_save")
              /\ UNCHANGED <<lastError, transcribeRet>>
         [] callOutcome = "MemoryError" ->
              TA_ReturnFalse("ResourceExhausted") /\ UNCHANGED reportVars
         [] callOutcome = "Exception" ->
              TA_ReturnFalse("Unclassified") /\ UNCHANGED reportVars
    /\ UNCHANGED <<inputVars, libVars, stageVars, config, job_id, ioVars, stop_progress, progress,
                   callOutcome, fileVars, extractRet, success, countVars,
                   exitCode>>

\* What save_subtitle leaves: the file, an exception, or no file.
SaveOutcomes == {"saved", "raised", "no_file"}

\* A save_subtitle that knows no structure to fall back to.
SaveFormat_NoFallback(format) == format

\* process_media.py:422-432: the structure save_subtitle writes for a format
\* name; a name it does not know is written as SRT
SaveFormat(format) == IF format \in VALID_FORMATS THEN format ELSE "srt"

\* process_media.py:374-395, and the handler 410-415
TA_Save ==
    /\ pc["main"] = "ta_save"
    /\ \E o \in SaveOutcomes :
         CASE o = "saved" ->
                /\ savedAs' = SaveFormat(Get(config, "output_format", "srt"))
                /\ CallReportProgress("main", "finalizing", 95,
                                      "Subtitle file created", "ta_return")
                /\ UNCHANGED <<lastError, transcribeRet>>
           [] o = "raised" ->
                /\ TA_ReturnFalse("Unclassified")
                /\ UNCHANGED <<reportVars, savedAs>>
           [] o = "no_file" ->
                /\ TA_ReturnFalse("ArtifactMissing")
                /\ UNCHANGED <<reportVars, savedAs>>
    /\ UNCHANGED <<inputVars, libVars, stageVars, config, job_id, ioVars, estVars, wavExists, ffmpeg,
                   extractRet, success, countVars, exitCode>>

\* process_media.py:396-398: return True
TA_ReturnTrue ==
    /\ pc["main"] = "ta_return"
    /\ transcribeRet' = "true"
    /\ Goto("main", "pmf_transcribed")
    /\ UNCHANGED <<inputVars, libVars, stageVars, config, job_id, reportVars, ioVars, estVars,
                   fileVars, extractRet, success, countVars, lastError,
                   exitCode>>

\* ------------------------------------------ report_transcription_progress
\* process_media.py:325: progress = 70
Est_Begin ==
    /\ pc["est"] = "started"
    /\ progress' = EstimatorStart
    /\ Goto("est", "loop")
    /\ UNCHANGED <<inputVars, libVars, stageVars, config, job_id, reportVars, ioVars,
                   stop_progress, callOutcome, cleanupDone, joinTimedOut,
                   fileVars, retVars, countVars, lastError, exitCode>>

\* The condition of the estimator's loop.
EstimatorContinues(stopped, p) == ~stopped /\ p < EstimatorCap

\* process_media.py:326: while not stop_progress.is_set() and progress < 89
Est_Loop ==
    /\ pc["est"] = "loop"
    /\ Goto("est", IF EstimatorContinues(stop_progress, progress) THEN "wait" ELSE "done")
    /\ UNCHANGED <<inputVars, libVars, stageVars, config, job_id, reportVars, ioVars, estVars,
                   fileVars, retVars, countVars, lastError, exitCode>>

\* process_media.py:327: stop_progress.wait(5) returns when the event is
\* set or when the five seconds have passed
Est_Wait ==
    /\ pc["est"] = "wait"
    /\ Goto("est", "test")
    /\ UNCHANGED <<inputVars, libVars, stageVars, config, job_id, reportVars, ioVars, estVars,
                   fileVars, retVars, countVars, lastError, exitCode>>

\* An estimator that forgets the cap.
EstimatorNext_NoCap(p) == p + EstimatorStep

\* process_media.py:329: progress = min(89, progress + 3)
EstimatorNext(p) == Min(EstimatorCap, p + EstimatorStep)

\* process_media.py:328-331
Est_Tick ==
    /\ pc["est"] = "test"
    /\ IF ~stop_progress
         THEN /\ progress' = EstimatorNext(progress)
              /\ CallReportProgress("est", "transcribing", progress',
                                    "Transcribing audio...", "loop")
         ELSE /\ Goto("est", "loop")
              /\ UNCHANGED <<progress, reportVars>>
    /\ UNCHANGED <<inputVars, libVars, stageVars, config, job_id, ioVars, stop_progress,
                   callOutcome, cleanupDone, joinTimedOut, fileVars, retVars,
                   countVars, lastError, exitCode>>

\* ------------------------------------------------------------------ spec
Next ==
    \/ Main_Decode
    \/ Main_DecodeExit
    \/ Main_Exit
    \/ Main_Interrupt
    \/ PMF_Start
    \/ PMF_RequiredKeys
    \/ PMF_MakeDirs
    \/ PMF_AfterExtract
    \/ PMF_AfterTranscribe
    \/ PMF_Metadata
    \/ EA_Start
    \/ EA_CheckInput
    \/ EA_RunFFmpeg
    \/ EA_ReturnTrue
    \/ TA_Start
    \/ TA_LoadModel
    \/ TA_Options
    \/ TA_StartThread
    \/ TA_Transcribe
    \/ TA_StopSet
    \/ TA_Join
    \/ TA_Save
    \/ TA_ReturnTrue
    \/ Est_Begin
    \/ Est_Loop
    \/ Est_Wait
    \/ Est_Tick
    \/ \E t \in Threads : RP_Print(t)
    \/ \E t \in Threads : RP_Open(t)
    \/ \E t \in Threads : RP_Close(t)

Spec == Init /\ [][Next]_vars

\* The same program where writes to standard output and to the snapshot file
\* may fail.
Faults == {"stdout", "snapshot"}
InitIO == StartState /\ faults \in SUBSET Faults \ {{}}

SpecIO == InitIO /\ [][Next]_vars

\* ------------------------------------------------- a run left to itself
\* The steps of the main thread, the user's interrupt apart.
MainStep ==
    \/ Main_Decode
    \/ Main_DecodeExit
    \/ Main_Exit
    \/ PMF_Start
    \/ PMF_RequiredKeys
    \/ PMF_MakeDirs
    \/ PMF_AfterExtract
    \/ PMF_AfterTranscribe
    \/ PMF_Metadata
    \/ EA_Start
    \/ EA_CheckInput
    \/ EA_RunFFmpeg
    \/ EA_ReturnTrue
    \/ TA_Start
    \/ TA_LoadModel
    \/ TA_Options
    \/ TA_StartThread
    \/ TA_Transcribe
    \/ TA_StopSet
    \/ TA_Join
    \/ TA_Save
    \/ TA_ReturnTrue
    \/ RP_Print("main")
    \/ RP_Open("main")
    \/ RP_Close("main")

\* The steps of the estimator thread.
EstStep ==
    \/ Est_Begin
    \/ Est_Loop
    \/ Est_Wait
    \/ Est_Tick
    \/ RP_Print("est")
    \/ RP_Open("est")
    \/ RP_Close("est")

\* A run nobody interrupts, in which each thread that can take a step
\* eventually takes one: the interpreter switches between its threads, the
\* tool returns or times out, the recognition returns or raises.
SpecRun ==
    Init /\ [][MainStep \/ EstStep]_vars /\ WF_vars(MainStep) /\ WF_vars(EstStep)

\* ------------------------------------------------- the functions alone
\* How many times in a row apply_defaults is applied.
MaxApplications == 2

pipelineVars == <<inputVars, config, job_id, pc, reportVars, ioVars, estVars,
                  fileVars, retVars, countVars, lastError, exitCode, cuda,
                  device, modelDevice, recogDevice, metadata>>

\* config.py:80-84, applied to the dictionary and then to its own result
Call_apply_defaults ==
    /\ applied < MaxApplications
    /\ defaulted' = apply_defaults(IF applied = 0 THEN raw ELSE defaulted)
    /\ applied' = applied + 1
    /\ UNCHANGED <<pipelineVars, language, raw, verdict, selector, langCode>>

\* config.py:40-77
Call_validate_config ==
    /\ verdict[2] = "not called"
    /\ verdict' = validate_config(raw)
    /\ UNCHANGED <<pipelineVars, language, raw, defaulted, applied, selector,
                   langCode>>

\* config.py:87-90
Call_get_language_code ==
    /\ langCode = "not called"
    /\ langCode' = get_language_code(selector)
    /\ UNCHANGED <<pipelineVars, language, raw, defaulted, applied, verdict,
                   selector>>

\* process_media.py:281-302, with the selector for config["language"]
TA_ResolveLanguage ==
    /\ language = "unresolved"
    /\ language' = ResolveLanguage(selector)
    /\ UNCHANGED <<pipelineVars, libVars>>

\* A dictionary from WideConfigs, or a language selector.
InitConfig ==
    /\ blob = BadBlob
    /\ configAvailable = TRUE
    /\ faults = {}
    /\ NotStarted
    /\ \/ raw \in WideConfigs /\ selector = "English"
       \/ raw = NoConfig /\ selector \in Selectors

NextConfig ==
    \/ Call_apply_defaults
    \/ Call_validate_config
    \/ Call_get_language_code
    \/ TA_ResolveLanguage

SpecConfig == InitConfig /\ [][NextConfig]_vars

\* ================================================================ claims
IsProgress(line) == line.kind = "progress"
IsResult(line) == line.kind = "result"

\* The progress events and the result events of the live stream, in order.
Progress == SelectSeq(out, IsProgress)
Results == SelectSeq(out, IsResult)

PhaseOrder == <<"queued", "converting", "transcribing", "finalizing", "completed">>
Rank(phase) == CHOOSE r \in DOMAIN PhaseOrder : PhaseOrder[r] = phase

\* Some report_progress call has started and not returned.
Reporting == \E t \in Threads : pc[t] \in {"rp_print", "rp_open", "rp_close"}

\* C1: the phases of the progress events on the live stream, consecutive
\* repeats collapsed, are a prefix of queued, converting, transcribing,
\* finalizing, completed: the first event is queued, and every event has the
\* phase of the one before it or the next phase.
C1_PhasesArePrefix ==
    /\ Progress # <<>> => Progress[1].phase = "queued"
    /\ \A i \in 1..(Len(Progress) - 1) :
         Rank(Progress[i + 1].phase) \in
             {Rank(Progress[i].phase), Rank(Progress[i].phase) + 1}

\* C2: the percents of the progress events never decrease along the live
\* stream.
C2_PercentNonDecreasing ==
    \A i \in 1..(Len(Progress) - 1) : Progress[i].percent <= Progress[i + 1].percent

\* C3: a run that has ended, with whatever exit code, has emitted exactly
\* one Result Event.
C3_ExactlyOneResult ==
    exitCode # NoExit => Len(Results) = 1

\* C4: no progress event is written to the live stream after the Result
\* Event.
C4_ResultIsLastLine ==
    \A i, j \in DOMAIN out : (i < j /\ IsResult(out[i])) => ~IsProgress(out[j])

\* C5: a Result Event with success=true is emitted only when both stages
\* returned true and no failure was logged, and carries both artifact paths
\* and no error; a Result Event with success=false carries a non-empty error
\* and no subtitle path; after a failure no Result Event has success=true.
C5_SuccessOnlyAfterBothStages ==
    /\ \A i \in DOMAIN Results :
         IF Results[i].success
           THEN /\ extractRet = "true" /\ transcribeRet = "true"
                /\ Results[i].wav_file = wav_file
                /\ Results[i].subtitle_file = subtitle_file
                /\ Results[i].error = None
           ELSE /\ Results[i].error \notin {None, ""}
                /\ Results[i].subtitle_file = None
    /\ (lastError # "none" \/ extractRet = "false" \/ transcribeRet = "false")
         => \A i \in DOMAIN Results : ~Results[i].success
    /\ \A i, j \in DOMAIN Results :
         (i < j /\ ~Results[i].success) => ~Results[j].success

\* A run that reported success after both stages returned true.
C5_Witness ==
    /\ exitCode = 0
    /\ extractRet = "true" /\ transcribeRet = "true"
    /\ Len(Results) = 1 /\ Results[1].success

\* C6: each stage is invoked at most once, the transcription only after the
\* extraction returned true, and a stage that returned false is the last
\* stage invoked.
C6_NoRetry ==
    /\ extractCalls <= 1 /\ transcribeCalls <= 1
    /\ transcribeCalls > 0 => extractRet = "true"
    /\ extractRet = "false" => extractCalls = 1 /\ transcribeCalls = 0
    /\ transcribeRet = "false" => extractCalls = 1 /\ transcribeCalls = 1
    /\ (extractRet = "false" \/ transcribeRet = "false")
         => pc["main"] \in {"pmf_extracted", "pmf_transcribed", "main_after", "exited"}

\* A job that ended after its transcription stage returned false.
C6_Witness ==
    /\ exitCode = 1
    /\ extractRet = "true" /\ transcribeRet = "false"
    /\ extractCalls = 1 /\ transcribeCalls = 1

\* C7: once the finally block around model.transcribe has completed (stop
\* set, join returned), the estimator thread has ended.
C7_EstimatorEndedAfterCleanup ==
    cleanupDone => pc["est"] \in {"done", "killed"}

\* The estimator's events on the live stream, in order.
ByEstimator(line) == IsProgress(line) /\ line.by = "est"
Estimated == SelectSeq(out, ByEstimator)

\* C8: every event of the estimator has phase transcribing and a percent in
\* 73..89, three above the one before it or 89, so strictly increasing.
C8_EstimatorBelow90 ==
    /\ \A i \in DOMAIN Estimated :
         /\ Estimated[i].phase = "transcribing"
         /\ Estimated[i].percent < 90
         /\ Estimated[i].percent \in 73..89
         /\ Estimated[i].percent =
              Min(89, (IF i = 1 THEN 70 ELSE Estimated[i - 1].percent) + 3)
    /\ \A i \in 1..(Len(Estimated) - 1) :
         Estimated[i].percent < Estimated[i + 1].percent

\* The estimator has reached its cap on the live stream.
C8_Witness ==
    \E i \in DOMAIN Estimated : Estimated[i].percent = 89

\* C9: whenever no report_progress call is in progress, the snapshot file
\* holds exactly one event, the most recent progress event of the live
\* stream.  The claim is taken in its most favourable reading: some event
\* has been reported, the job identity is not None (with None no snapshot is
\* written, line 83) and the process has not been stopped inside a call.
C9_SnapshotIsLastEvent ==
    (~Reporting /\ exitCode = NoExit /\ job_id # None /\ Progress # <<>>)
        => (snap.st = "event" /\ snap.ev = Progress[Len(Progress)])

\* C10: the snapshot file is absent or holds one complete progress event,
\* whenever a reader looks and wherever the process is stopped.
C10_SnapshotNeverPartial ==
    snap.st \in {"absent", "event"}

\* The writes of the snapshot file of the job that carried the event `line`.
SnapshotWritesOf(line) ==
    {k \in DOMAIN snapLog : snapLog[k].file = progress_file /\ snapLog[k].ev = line}

\* C11: for every configuration that decodes, with or without a job_id key
\* and whatever its value, every progress event of the live stream has also
\* been written, with the same fields, to the snapshot file of the job,
\* once no report_progress call is in progress.
C11_EveryEventAlsoInSnapshot ==
    (blob.decodes /\ ~Reporting /\ exitCode = NoExit)
        => \A i \in DOMAIN Progress : SnapshotWritesOf(Progress[i]) # {}

\* C12: report_progress never fails its caller: when the write to the live
\* stream or the write of the snapshot fails, the failure is swallowed, no
\* exception reaches the code that called report_progress, and the stages
\* return what they would have returned.
C12_ProgressNeverFailsItsCaller ==
    /\ ~rpRaised
    /\ ExtractionSucceeded(ffmpeg) => extractRet # "false"

\* C13: the job identity is fixed once, when the configuration is decoded:
\* it is the job_id of the input or, without one, the generated identifier.
\* It never changes afterwards, and every snapshot write of the job goes to
\* the one file named after it.
C13_JobIdentityFixed ==
    /\ [][(pc["main"] = "main_decode" /\ pc'["main"] = "pmf_start")
            => job_id' = Get(blob.cfg, "job_id", "uuid4")]_vars
    /\ [][pc["main"] # "main_decode" => job_id' = job_id]_vars
    /\ [](\A k \in DOMAIN snapLog : snapLog[k].file = job_id)

\* A job without job_id in its input whose two threads have both written
\* the snapshot.
C13_Witness ==
    /\ blob.cfg["job_id"] = Absent
    /\ job_id = "uuid4"
    /\ \E k, l \in DOMAIN snapLog : snapLog[k].ev.by = "main" /\ snapLog[l].ev.by = "est"

\* C14: a job whose input path names no file ("gone.mp4") is rejected
\* before any child process is spawned and before the recognition is
\* called: whatever result it emits says success = false, and it never exits
\* with 0.
C14_MissingInputRejected ==
    (blob.decodes /\ blob.cfg["input_file"] = "gone.mp4")
        => /\ childSpawns = 0
           /\ recogCalls = 0
           /\ transcribeCalls = 0
           /\ \A i \in DOMAIN Results : ~Results[i].success
           /\ exitCode # 0
           /\ exitCode = 1 => Len(Results) = 1

\* The missing input got past the start of the job (no validation module)
\* and was caught by extract_audio's own check; the job has ended.
C14_Witness ==
    /\ blob.decodes /\ blob.cfg["input_file"] = "gone.mp4"
    /\ extractCalls = 1 /\ lastError = "FileNotFound"
    /\ exitCode = 1 /\ Len(Results) = 1

\* The messages of the validation failures: those of validate_config and
\* that of the required-keys check.
ValidationMessages ==
    {validate_config(apply_defaults(c))[2] : c \in Configs} \cup {"Missing required config"}

C16_ExitCodeAgreesWithResult ==
    pc["main"] = "exited"
        => /\ (exitCode = 0) <=> (\E i \in DOMAIN Results : Results[i].success)
           /\ (exitCode = 1) <=> (\E i \in DOMAIN Results : ~Results[i].success)

\* C16 amended: the exit code is 2 exactly when the user interrupted the
\* run, whether or not a result had been emitted by then; exit code 0 comes
\* only after the one result with success = true and exit code 1 only after
\* the one result with success = false, so that a run that was not
\* interrupted exits with 0 exactly when its result says success = true and
\* with 1 exactly when it says success = false.
C16_ExitCodeAgreesUnlessInterrupted ==
    /\ [][exitCode' # exitCode
            => (exitCode = NoExit /\ ((exitCode' = 2) <=> Main_Interrupt))]_vars
    /\ [](exitCode \in {NoExit, 0, 1, 2})
    /\ [](pc["main"] = "exited" <=> exitCode # NoExit)
    /\ [](exitCode = 0 => (Len(Results) = 1 /\ Results[1].success))
    /\ [](exitCode = 1 => (Len(Results) = 1 /\ ~Results[1].success))

\* The user interrupted a run after its result with success = true was
\* emitted and before main reached sys.exit.
C16_Witness ==
    exitCode = 2 /\ Len(Results) = 1 /\ Results[1].success

\* The completion event of the extraction on the live stream.
ExtractionCompleted ==
    \E i \in DOMAIN Progress :
        Progress[i].phase = "converting" /\ Progress[i].percent = 50

\* C17: extract_audio returns true only if the tool exited with code zero
\* within the hour and the output file exists; a tool that was not started,
\* a timeout, a non-zero exit and a zero exit without the file each make it
\* return false; the (converting, 50) event is emitted only on the path that
\* returns true.
C17_ExtractionVerifiesItsArtifact ==
    /\ extractRet = "true" => (ffmpeg.how = "zero" /\ ffmpeg.wav)
    /\ ffmpeg.how \in {"spawn_failed", "timeout", "nonzero"} => extractRet = "false"
    /\ (ffmpeg.how = "zero" /\ ~ffmpeg.wav) => extractRet = "false"
    /\ ExtractionCompleted
          => (ffmpeg.how = "zero" /\ ffmpeg.wav /\ extractRet # "false")
    /\ (pc["main"] = "ea_return" \/ ret["main"] = "ea_return")
          => (ffmpeg.how = "zero" /\ ffmpeg.wav)

\* The tool exited with zero and left the file: the event is on the stream
\* and the stage has returned true.
C17_Witness ==
    extractRet = "true" /\ ExtractionCompleted /\ ffmpeg.how = "zero" /\ ffmpeg.wav

\* The messages the stages build for the failure kinds, process_media.py:168
\* (non-zero exit), 178 and 382 (no output file), 195 (timeout), 405 (out
\* of memory).
ClassifiedMessages(kind) ==
    CASE kind = "ToolFailure" -> {"FFmpeg failed with exit code"}
      [] kind = "ArtifactMissing" -> {"Output WAV file was not created",
                                      "Subtitle file was not created"}
      [] kind = "Timeout" -> {"FFmpeg timed out (exceeded 1 hour)"}
      [] kind = "ResourceExhausted" -> {"Out of memory during transcription"}
      [] OTHER -> {}

ClassifiedKinds == {"ToolFailure", "ArtifactMissing", "Timeout", "ResourceExhausted"}

\* C18: the failure kind survives to the result event: a job that failed by
\* a timeout of the tool, a non-zero exit, a missing artifact or exhausted
\* memory carries the message of that kind in its result, so that different
\* kinds give different messages.
C18_FailureKindSurvives ==
    \A i \in DOMAIN Results :
        (~Results[i].success /\ lastError \in ClassifiedKinds)
            => Results[i].error \in ClassifiedMessages(lastError)

\* The audio file was missing at the guard of transcribe_audio.
GuardFailed == transcribeCalls = 1 /\ recogCalls = 0 /\ lastError = "FileNotFound"

\* C19 as stated: a missing audio file at the initial guard leaves
\* transcribe_audio as a FileNotFound exception, which the orchestrator
\* catches: the stage returns nothing and the result carries the message of
\* the orchestrator's FileNotFound handler.
C19_GuardRaisesToOrchestrator ==
    GuardFailed
        => /\ transcribeRet = "none"
           /\ \A i \in DOMAIN Results : Results[i].error = "File not found"

\* C19 amended: transcribe_audio returns false for every failure inside it,
\* the missing audio file at the initial guard included; no exception
\* passes its boundary, and the orchestrator reports the failed stage.
C19_TranscriptionReturnsFalse ==
    /\ (transcribeCalls = 1 /\ lastError # "none" /\ transcribeRet # "true")
          => /\ transcribeRet = "false"
             /\ \A i \in DOMAIN Results :
                  ~Results[i].success /\ Results[i].error = "Transcription failed"
    /\ GuardFailed => transcribeRet = "false"

\* The guard found no audio file and the job has ended with its result.
C19_Witness ==
    /\ GuardFailed /\ transcribeRet = "false"
    /\ Len(Results) = 1 /\ Results[1].error = "Transcription failed"
    /\ exitCode = 1

\* C20: a job that asks for an output format other than srt, vtt, txt and
\* json does not fail for that reason: no result rejects the format, and
\* what is saved is saved in SRT structure.
C20_UnknownFormatDoesNotFail ==
    (blob.decodes /\ blob.cfg["output_format"] = "xyz")
        => /\ \A i \in DOMAIN Results : Results[i].error # "Invalid format"
           /\ savedAs \in {"none", "srt"}

\* C21: a job that asks for device cuda where cuda is not available does
\* not fail for that: transcribe_audio resolves the device to cpu, the model
\* is loaded on cpu and the recognition runs on cpu.
C21_CudaFallsBackToCpu ==
    (blob.decodes /\ blob.cfg["device"] = "cuda" /\ cuda = "no")
        => /\ device = "cpu"
           /\ modelDevice \in {"none", "cpu"}
           /\ recogDevice \in {"none", "cpu"}
           /\ recogCalls > 0 => recogDevice = "cpu"

\* The job asked for cuda, cuda was not available, and the run ended with
\* success = true after a recognition on cpu.
C21_Witness ==
    /\ blob.decodes /\ blob.cfg["device"] = "cuda" /\ cuda = "no"
    /\ recogDevice = "cpu"
    /\ exitCode = 0 /\ Len(Results) = 1 /\ Results[1].success

\* The rules of validate_config in the order of the claim, each with whether
\* the dictionary violates it and with its message.
Violations(cfg) ==
    << cfg["input_file"] = Absent,
       cfg["output_dir"] = Absent,
       cfg["input_file"] # Absent /\ ~FileExists(cfg["input_file"]),
       Get(cfg, "whisper_model", "base") \notin VALID_MODELS,
       Get(cfg, "output_format", "srt") \notin VALID_FORMATS,
       Get(cfg, "task", "transcribe") \notin VALID_TASKS,
       Get(cfg, "device", "cpu") \notin VALID_DEVICES >>

RuleMessages ==
    << "Missing required field: input_file", "Missing required field: output_dir",
       "Input file not found", "Invalid model", "Invalid format", "Invalid task",
       "Invalid device" >>

Violated(cfg) == {r \in DOMAIN RuleMessages : Violations(cfg)[r]}

FirstViolated(cfg) == CHOOSE r \in Violated(cfg) : \A q \in Violated(cfg) : r <= q

\* C22: validate_config checks presence of input_file, presence of
\* output_dir, existence of the input path, then model, format, task and
\* device, in this order; for a dictionary that violates several rules it
\* returns false with the message of the first; it returns (true, None)
\* exactly when no rule is violated.
C22_FirstViolatedRule ==
    verdict[2] # "not called"
        => /\ verdict[1] <=> (Violated(raw) = {})
           /\ verdict[1] => verdict[2] = None
           /\ ~verdict[1] => verdict[2] = RuleMessages[FirstViolated(raw)]

\* validate_config was given an existing input with an unknown model, an
\* unknown format and an unknown device, and named the model.
C22_Witness ==
    /\ raw["input_file"] = "in.mp4" /\ raw["output_dir"] = "out"
    /\ raw["whisper_model"] = "huge" /\ raw["output_format"] = "xyz"
    /\ raw["device"] = "tpu"
    /\ verdict = <<FALSE, "Invalid model">>

\* C23: apply_defaults returns a dictionary in which every key of the input
\* keeps the input's value, every key of the default table that the input
\* lacks has its default, and no other key appears; the input is left as it
\* was; applied to its own result it returns that result again.
C23_DefaultsFillOnlyMissingKeys ==
    /\ [](applied > 0 =>
            \A k \in Keys :
                /\ raw[k] # Absent => defaulted[k] = raw[k]
                /\ (raw[k] = Absent /\ k \in OptionalKeys)
                      => defaulted[k] = DEFAULT_CONFIG[k]
                /\ (raw[k] = Absent /\ k \notin OptionalKeys)
                      => defaulted[k] = Absent)
    /\ [][raw' = raw]_vars
    /\ [][applied > 0 /\ applied' > applied => defaulted' = defaulted]_vars

\* apply_defaults has been applied twice to a dictionary that gives some
\* optional keys values of its own and lacks others.
C23_Witness ==
    /\ applied = MaxApplications
    /\ raw["whisper_model"] = "tiny" /\ raw["device"] = "cuda"
    /\ raw["language"] = Absent /\ raw["input_file"] = Absent
    /\ defaulted["whisper_model"] = "tiny" /\ defaulted["language"] = "English"

\* The completed event is on the live stream.
CompletedReported ==
    \E i \in DOMAIN Progress : Progress[i].phase = "completed"

\* C24: the (completed, 100) event is emitted only after the duration and
\* the sizes of the result metadata have been obtained.
C24_CompletedAfterMetadata ==
    CompletedReported => metadata = {"duration", "sizes"}

\* C25: a run that has reported completed, on the live stream or in the
\* snapshot, never emits a result with success = false.
C25_NoFailureAfterCompleted ==
    (CompletedReported \/ (snap.st = "event" /\ snap.ev.phase = "completed"))
        => \A i \in DOMAIN Results : Results[i].success

IsConverting(line) == IsProgress(line) /\ line.phase = "converting"

\* The events of the extraction on the live stream, in order.
Converting == SelectSeq(out, IsConverting)

\* C27 as stated: an extraction that succeeded has emitted exactly two
\* progress events, a low percent at its start and a mid-range percent at
\* its completion, and none in between.
C27_TwoExtractionEvents ==
    extractRet = "true"
        => /\ Len(Converting) = 2
           /\ Converting[1].percent = 10
           /\ Converting[2].percent = 50

\* C27 amended: an extraction that succeeded has emitted exactly three
\* progress events, all with phase converting: 10 at its start, 25 once the
\* input was found and before the tool is run, and 50 at its completion.
C27_ThreeExtractionEvents ==
    /\ Len(Converting) <= 3
    /\ \A i \in DOMAIN Converting :
         /\ Converting[i].percent = <<10, 25, 50>>[i]
         /\ Converting[i].by = "main"
    /\ extractRet = "true" => Len(Converting) = 3

\* The extraction has returned true with its three events on the stream.
C27_Witness ==
    extractRet = "true" /\ Len(Converting) = 3 /\ Converting[2].percent = 25

\* C28: for every language selector, the language transcribe_audio passes
\* to the recognition equals get_language_code of that selector (None for
\* auto: no forced language).
C28_OneLanguageTable ==
    (language # "unresolved" /\ langCode # "not called") => language = langCode

\* C26: a run that is not interrupted ends: the process exits with 0 or 1
\* after its one result event (the orchestrator reached Completed or
\* Failed), and the estimator thread, once the stop event is set or its
\* percent has reached the cap, leaves its loop and ends.
C26_EveryJobTerminates ==
    /\ <>(pc["main"] = "exited" /\ exitCode \in {0, 1} /\ Len(Results) = 1)
    /\ (pc["est"] \notin {"idle", "done", "killed"}
          /\ (stop_progress \/ progress >= EstimatorCap))
         ~> (pc["est"] \in {"done", "killed"})
    /\ [][(pc["est"] = "loop" /\ pc'["est"] # "loop"
            /\ ~EstimatorContinues(stop_progress, progress))
           => pc'["est"] \in {"done", "killed"}]_vars

\* The job has ended with its result and the estimator has left its loop by
\* itself.
C26_Witness ==
    /\ pc["main"] = "exited" /\ exitCode = 0 /\ Len(Results) = 1
    /\ pc["est"] = "done" /\ stop_progress

====
